---- MODULE Spec2Model ----
(***************************************************************************)
(* Model of beancount/query/query_env.py: the aggregate functions and      *)
(* their allocate / initialize / update / finalize lifecycle against an    *)
(* executor-owned store, the function registries and their resolution,     *)
(* and the entry- and posting-scoped column accessors.                     *)
(***************************************************************************)
EXTENDS Integers, Sequences, FiniteSets, TLC

\* ------------------------------------------------------------------ bounds
MaxRows == 3          \* rows fed to one group
MaxFinalize == 2      \* consecutive finalize calls on one group
NumHandles == 2       \* slots of the executor's store

\* ------------------------------------------------------------------ values
\* Every Python value is one record shape, so that any two values compare.
Lots == {"USD", "CAD", "HOOL {500 USD}"}
Currencies == {"USD", "CAD"}
Tags == {"t1", "t2"}
NumVals == {-5, 5, 10, 20}
UnitVals == {-5, 5}
StrVals == {"", "a", "b"}
DateVals == {1, 2}

ZeroInv == [l \in Lots |-> 0]

V(t, n, c, s, inv) == [t |-> t, n |-> n, c |-> c, s |-> s, inv |-> inv]
None == V("none", 0, "", {}, ZeroInv)
Num(n) == V("num", n, "", {}, ZeroInv)
Str(c) == V("str", 0, c, {}, ZeroInv)
SetVal(s) == V("set", 0, "", s, ZeroInv)
Date(n) == V("date", n, "", {}, ZeroInv)
Amount(n, c) == V("amount", n, c, {}, ZeroInv)
Position(n, lot) == V("position", n, lot, {}, ZeroInv)
Inventory(inv) == V("inventory", 0, "", {}, inv)
\* A reference to a mutable Inventory object held in the heap.
Ref(i) == V("ref", i, "", {}, ZeroInv)
\* The outcome of a call that raises.
Raise == V("raise", 0, "", {}, ZeroInv)

\* The values an operand of each static type evaluates to.  An Amount-typed
\* operand (the price column) may be absent.
OperandValues(dt) ==
    CASE dt = "num" -> {Num(n) : n \in NumVals}
      [] dt = "str" -> {Str(c) : c \in StrVals}
      [] dt = "set" -> {SetVal(s) : s \in SUBSET Tags}
      [] dt = "date" -> {Date(n) : n \in DateVals}
      [] dt = "amount" -> {Amount(n, c) : n \in UnitVals, c \in Currencies} \cup {None}
      [] dt = "position" -> {Position(n, l) : n \in UnitVals, l \in Lots}
      [] dt = "inventory" ->
            {Inventory(ZeroInv)} \cup
            {Inventory([ZeroInv EXCEPT ![l] = 5]) : l \in Lots}

DTypes == {"num", "str", "set", "date", "amount", "position", "inventory"}

\* self.dtype(): the operand type called with no argument.  int() and
\* Decimal() give 0, str() gives '', set() gives the empty set, and
\* datetime.date() raises TypeError (its year, month, day are required).
DTypeCall(dt) ==
    CASE dt = "num" -> Num(0)
      [] dt = "str" -> Str("")
      [] dt = "set" -> SetVal({})
      [] dt = "date" -> Raise

StrRank(c) == CASE c = "" -> 0 [] c = "a" -> 1 [] c = "b" -> 2

\* Python's a < b on two values of one type: numeric and date order, string
\* order, and proper subset on sets.
Less(a, b) ==
    CASE a.t = "set" -> a.s \subseteq b.s /\ a.s # b.s
      [] a.t = "str" -> StrRank(a.c) < StrRank(b.c)
      [] OTHER -> a.n < b.n

Greater(a, b) == Less(b, a)

\* ------------------------------------------------------------- inventories
\* inventory.Inventory: one number per lot, a lot with number zero is absent.
add_position(inv, p) == [inv EXCEPT ![p.c] = @ + p.n]
add_amount(inv, a) == [inv EXCEPT ![a.c] = @ + a.n]
add_inventory(inv, other) == [l \in Lots |-> inv[l] + other.inv[l]]

\* ------------------------------------------------------------- aggregators
Kinds == {"Count", "Sum", "SumAmount", "SumPosition", "SumInventory",
          "First", "Last", "Min", "Max"}
SumBaseKinds == {"SumAmount", "SumPosition", "SumInventory"}

\* __intypes__ of each aggregator, over the operand types of the model.
\* Min and Max are modelled over the types whose dtype() is known.
InTypes(k) ==
    CASE k = "Sum" -> {"num"}
      [] k = "SumAmount" -> {"amount"}
      [] k = "SumPosition" -> {"position"}
      [] k = "SumInventory" -> {"inventory"}
      [] k \in {"Min", "Max"} -> {"num", "str", "set", "date"}
      [] OTHER -> DTypes

\* Each operation maps the executor's state m = [store, heap, raised] to the
\* state after the call.
CountInitializeClearsStore(m, h) ==
    [m EXCEPT !.store = [x \in DOMAIN m.store |-> Num(0)]]
CountInitialize(m, h) == [m EXCEPT !.store[h] = Num(0)]
CountUpdateIgnoresAbsent(m, h, value) ==
    IF value = None THEN m ELSE [m EXCEPT !.store[h] = Num(@.n + 1)]
CountUpdate(m, h, value) == [m EXCEPT !.store[h] = Num(@.n + 1)]

CallInitialize(m, h, dt) ==
    IF DTypeCall(dt) = Raise
    THEN [m EXCEPT !.raised = TRUE]
    ELSE [m EXCEPT !.store[h] = DTypeCall(dt)]

SumInitialize(m, h, dt) == CallInitialize(m, h, dt)
SumUpdateAssigns(m, h, value) == [m EXCEPT !.store[h] = value]
SumUpdate(m, h, value) == [m EXCEPT !.store[h] = Num(@.n + value.n)]

\* The slot's Inventory object, once there is one, emptied and kept.
SumBaseInitializeReuses(m, h) ==
    IF m.store[h].t = "ref"
    THEN [m EXCEPT !.heap[m.store[h].n] = ZeroInv]
    ELSE [m EXCEPT !.heap = Append(@, ZeroInv), !.store[h] = Ref(Len(m.heap) + 1)]
SumBaseInitialize(m, h) ==
    [m EXCEPT !.heap = Append(@, ZeroInv), !.store[h] = Ref(Len(m.heap) + 1)]
\* An absent amount has no number or currency to read: add_amount raises.
SumAmountUpdate(m, h, value) ==
    IF value = None
    THEN [m EXCEPT !.raised = TRUE]
    ELSE [m EXCEPT !.heap[m.store[h].n] = add_amount(@, value)]
SumPositionUpdate(m, h, value) ==
    [m EXCEPT !.heap[m.store[h].n] = add_position(@, value)]
SumInventoryUpdate(m, h, value) ==
    [m EXCEPT !.heap[m.store[h].n] = add_inventory(@, value)]

FirstInitialize(m, h) == [m EXCEPT !.store[h] = None]
FirstUpdateOverwrites(m, h, value) == [m EXCEPT !.store[h] = value]
FirstUpdate(m, h, value) ==
    IF m.store[h] = None THEN [m EXCEPT !.store[h] = value] ELSE m

LastInitialize(m, h) == [m EXCEPT !.store[h] = None]
LastUpdate(m, h, value) == [m EXCEPT !.store[h] = value]

MinInitializeAbsent(m, h, dt) == [m EXCEPT !.store[h] = None]
MinInitialize(m, h, dt) == CallInitialize(m, h, dt)
MinUpdateKeepsGreater(m, h, value) ==
    IF Greater(value, m.store[h]) THEN [m EXCEPT !.store[h] = value] ELSE m
MinUpdate(m, h, value) ==
    IF Less(value, m.store[h]) THEN [m EXCEPT !.store[h] = value] ELSE m

MaxInitialize(m, h, dt) == CallInitialize(m, h, dt)
MaxUpdate(m, h, value) ==
    IF Greater(value, m.store[h]) THEN [m EXCEPT !.store[h] = value] ELSE m

\* finalize is the same method body in every aggregator class: it returns
\* store[self.handle] and assigns nothing.
FinalizeClears(m, h) == [ret |-> m.store[h], m |-> [m EXCEPT !.store[h] = None]]
AggFinalize(m, h) == [ret |-> m.store[h], m |-> m]

initialize(k, m, h, dt) ==
    CASE k = "Count" -> CountInitialize(m, h)
      [] k = "Sum" -> SumInitialize(m, h, dt)
      [] k \in SumBaseKinds -> SumBaseInitialize(m, h)
      [] k = "First" -> FirstInitialize(m, h)
      [] k = "Last" -> LastInitialize(m, h)
      [] k = "Min" -> MinInitialize(m, h, dt)
      [] k = "Max" -> MaxInitialize(m, h, dt)

update(k, m, h, value) ==
    CASE k = "Count" -> CountUpdate(m, h, value)
      [] k = "Sum" -> SumUpdate(m, h, value)
      [] k = "SumAmount" -> SumAmountUpdate(m, h, value)
      [] k = "SumPosition" -> SumPositionUpdate(m, h, value)
      [] k = "SumInventory" -> SumInventoryUpdate(m, h, value)
      [] k = "First" -> FirstUpdate(m, h, value)
      [] k = "Last" -> LastUpdate(m, h, value)
      [] k = "Min" -> MinUpdate(m, h, value)
      [] k = "Max" -> MaxUpdate(m, h, value)

\* ------------------------------------------------------------------ state
VARIABLES
    kind,       \* the aggregator's class
    dtype,      \* static type of its operand
    handle,     \* self.handle, -1 before allocate
    allocator,  \* next handle the executor's allocator returns
    store,      \* the executor's store, one slot per handle
    heap,       \* the Inventory objects created so far
    raised,     \* an exception escaped a lifecycle call
    rows,       \* operand values of the rows of the group so far
    ret,        \* value returned by the last finalize
    nfinal,     \* finalize calls since the last update
    pc,         \* lifecycle position of the aggregator
    \* function resolution
    renv,       \* environment whose function table is consulted
    rname,      \* function name of the call
    rtype,      \* static type of the call's first operand
    rresult,    \* constructor resolved, or "CompilationError"
    \* column accessors
    entry,      \* a directive of the ledger
    ecol,       \* entry-scoped column last evaluated on entry
    evalue,     \* its value
    pcol,       \* posting-scoped column last evaluated on a posting of entry
    pvalue,     \* its value
    posting,    \* a posting whose own fields are read
    amount_bool, \* how bool() of an Amount is computed, "" when idle
    \* a compiled plan of several aggregators
    plan,       \* per aggregator: class, operand type, handle, position
    \* one aggregator over consecutive groups
    group,      \* groups initialized so far
    returned,   \* per finalized group: the value returned and its contents
    \* module load: the dict objects and the names bound to them
    dicts,      \* the dict objects created so far
    bind,       \* the object each table name is bound to, 0 when unbound
    lpc         \* index of the next statement of the module body, 0 when idle

aggvars == <<kind, dtype, handle, allocator, store, heap, raised, rows, ret,
             nfinal, pc>>
resvars == <<renv, rname, rtype, rresult>>
colvars == <<entry, ecol, evalue, pcol, pvalue>>
extvars == <<posting, amount_bool, plan, group, returned, dicts, bind, lpc>>
vars == <<aggvars, resvars, colvars, extvars>>

Handles == 0 .. NumHandles - 1

Machine == [store |-> store, heap |-> heap, raised |-> raised]

NoEntry ==
    [type |-> "", source |-> [filename |-> "", lineno |-> 0], date |-> None,
     flag |-> None, payee |-> None, narration |-> None, tags |-> None,
     links |-> None]

NoPosting == [entry |-> NoEntry, account |-> ""]

TableNames ==
    {"SIMPLE_FUNCTIONS", "AGGREGATOR_FUNCTIONS", "ENTRY_FUNCTIONS",
     "FilterEntriesEnvironment.functions",
     "FilterPostingsEnvironment.functions", "TargetsEnvironment.functions"}

PostIdle ==
    /\ posting = NoPosting
    /\ amount_bool = ""

PlanIdle == plan = <<>>

GroupIdle ==
    /\ group = 0
    /\ returned = <<>>

LoadIdle ==
    /\ dicts = <<>>
    /\ bind = [n \in TableNames |-> 0]
    /\ lpc = 0

ExtIdle ==
    /\ PostIdle
    /\ PlanIdle
    /\ GroupIdle
    /\ LoadIdle

ResIdle ==
    /\ renv = ""
    /\ rname = ""
    /\ rtype = ""
    /\ rresult = ""

ColIdle ==
    /\ entry = NoEntry
    /\ ecol = ""
    /\ evalue = None
    /\ pcol = ""
    /\ pvalue = None

AggIdle ==
    /\ kind = ""
    /\ dtype = ""
    /\ handle = -1
    /\ allocator = 0
    /\ store = [h \in Handles |-> None]
    /\ heap = <<>>
    /\ raised = FALSE
    /\ rows = <<>>
    /\ ret = None
    /\ nfinal = 0
    /\ pc = ""

Init ==
    /\ ResIdle
    /\ ColIdle
    /\ ExtIdle
    /\ kind \in Kinds
    /\ dtype \in InTypes(kind)
    /\ handle = -1
    /\ allocator \in Handles
    /\ store = [h \in Handles |-> None]
    /\ heap = <<>>
    /\ raised = FALSE
    /\ rows = <<>>
    /\ ret = None
    /\ nfinal = 0
    /\ pc = "constructed"

Allocate ==
    /\ pc = "constructed"
    /\ handle' = allocator
    /\ allocator' = allocator + 1
    /\ pc' = "allocated"
    /\ UNCHANGED <<kind, dtype, store, heap, raised, rows, ret, nfinal>>
    /\ UNCHANGED <<resvars, colvars, extvars>>

Initialize ==
    /\ pc = "allocated"
    /\ LET m == initialize(kind, Machine, handle, dtype) IN
         /\ store' = m.store
         /\ heap' = m.heap
         /\ raised' = m.raised
         /\ pc' = IF m.raised THEN "raised" ELSE "initialized"
    /\ UNCHANGED <<kind, dtype, handle, allocator, rows, ret, nfinal>>
    /\ UNCHANGED <<resvars, colvars, extvars>>

Update(value) ==
    /\ pc = "initialized"
    /\ Len(rows) < MaxRows
    /\ LET m == update(kind, Machine, handle, value) IN
         /\ store' = m.store
         /\ heap' = m.heap
         /\ raised' = m.raised
         /\ pc' = IF m.raised THEN "raised" ELSE "initialized"
    /\ rows' = Append(rows, value)
    /\ nfinal' = 0
    /\ UNCHANGED <<kind, dtype, handle, allocator, ret>>
    /\ UNCHANGED <<resvars, colvars, extvars>>

Finalize ==
    /\ pc \in {"initialized", "finalized"}
    /\ nfinal < MaxFinalize
    /\ LET r == AggFinalize(Machine, handle) IN
         /\ ret' = r.ret
         /\ store' = r.m.store
         /\ heap' = r.m.heap
         /\ raised' = r.m.raised
    /\ nfinal' = nfinal + 1
    /\ pc' = "finalized"
    /\ UNCHANGED <<kind, dtype, handle, allocator, rows>>
    /\ UNCHANGED <<resvars, colvars, extvars>>

Next ==
    \/ Allocate
    \/ Initialize
    \/ \E value \in OperandValues(dtype) : Update(value)
    \/ Finalize

Spec == Init /\ [][Next]_vars

\* ------------------------------------------------------ function registries
\* A table is a set of <<name, type, constructor>>; the type of a bare-name
\* key is "".
SIMPLE_FUNCTIONS ==
    { <<"str", "", "Str">>,
      <<"length", "", "Length">>,
      <<"parent", "", "Parent">>,
      <<"units", "position", "UnitsPosition">>,
      <<"cost", "position", "CostPosition">>,
      <<"year", "", "Year">>,
      <<"month", "", "Month">>,
      <<"day", "", "Day">>,
      <<"weekday", "", "Weekday">> }

AGGREGATOR_FUNCTIONS_NoSumPosition ==
    { <<"sum", "amount", "SumAmount">>,
      <<"sum", "inventory", "SumInventory">>,
      <<"sum", "", "Sum">>,
      <<"count", "", "Count">>,
      <<"first", "", "First">>,
      <<"last", "", "Last">>,
      <<"min", "", "Min">>,
      <<"max", "", "Max">> }

AGGREGATOR_FUNCTIONS ==
    { <<"sum", "amount", "SumAmount">>,
      <<"sum", "position", "SumPosition">>,
      <<"sum", "inventory", "SumInventory">>,
      <<"sum", "", "Sum">>,
      <<"count", "", "Count">>,
      <<"first", "", "First">>,
      <<"last", "", "Last">>,
      <<"min", "", "Min">>,
      <<"max", "", "Max">> }

ENTRY_FUNCTIONS == { <<"has_account", "", "MatchAccount">> }

HasKey(table, name, type) == \E e \in table : e[1] = name /\ e[2] = type
Lookup(table, name, type) ==
    (CHOOSE e \in table : e[1] = name /\ e[2] = type)[3]

\* dict.update on a copy: the entries of other replace those of the same key.
DictUpdate(table, other) ==
    {e \in table : ~HasKey(other, e[1], e[2])} \cup other

FilterEntriesFunctions == DictUpdate(SIMPLE_FUNCTIONS, ENTRY_FUNCTIONS)
FilterPostingsFunctions == SIMPLE_FUNCTIONS
TargetsFunctions == DictUpdate(FilterPostingsFunctions, AGGREGATOR_FUNCTIONS)

Environments == {"entries", "postings", "targets"}

Functions(env) ==
    CASE env = "entries" -> FilterEntriesFunctions
      [] env = "postings" -> FilterPostingsFunctions
      [] env = "targets" -> TargetsFunctions

\* The compound key (name, type of the first operand) is tried first, then
\* the bare name; a miss of both is a compilation error.
get_function(env, name, type) ==
    IF HasKey(Functions(env), name, type)
    THEN Lookup(Functions(env), name, type)
    ELSE IF HasKey(Functions(env), name, "")
         THEN Lookup(Functions(env), name, "")
         ELSE "CompilationError"

FunctionNames ==
    {"str", "length", "parent", "units", "cost", "year", "month", "day",
     "weekday", "sum", "count", "first", "last", "min", "max", "has_account",
     "median"}

ResInit ==
    /\ AggIdle
    /\ ColIdle
    /\ ExtIdle
    /\ renv \in Environments
    /\ rname \in FunctionNames
    /\ rtype \in DTypes
    /\ rresult = ""

Resolve ==
    /\ rresult = ""
    /\ rresult' = get_function(renv, rname, rtype)
    /\ UNCHANGED <<renv, rname, rtype, aggvars, colvars, extvars>>

ResNext == Resolve

ResSpec == ResInit /\ [][ResNext]_vars

\* --------------------------------------------------------- column accessors
\* A globally available empty set to fill in for None's.
EMPTY_SET == SetVal({})

\* Python truth value: None, '' and the empty set are false.
Truthy(v) == v # None /\ v # Str("") /\ v # SetVal({})
Or(a, b) == IF Truthy(a) THEN a ELSE b

IsTransaction(e) == e.type = "Transaction"

\* type(entry).__name__.lower()
Lower(name) ==
    CASE name = "Transaction" -> "transaction"
      [] name = "Open" -> "open"

\* hash_entry: a digest of the directive's contents.
FieldCode(v) == IF v = None THEN 0 ELSE IF Truthy(v) THEN 2 ELSE 1
hash_entry(e) ==
    V("str",
      (IF IsTransaction(e) THEN 1 ELSE 0) + 2 * e.source.lineno
          + 16 * FieldCode(e.payee) + 64 * FieldCode(e.narration)
          + 256 * FieldCode(e.tags) + 1024 * FieldCode(e.links),
      "hash", {}, ZeroInv)

\* Column accessors for entries.
IdEntryColumn(e) == hash_entry(e)
TypeEntryColumn(e) == Str(Lower(e.type))
FilenameEntryColumn(e) == Str(e.source.filename)
LineNoEntryColumn(e) == Num(e.source.lineno)
DateEntryColumn(e) == e.date
YearEntryColumn(e) == Num(e.date.n \div 10000)
MonthEntryColumn(e) == Num((e.date.n \div 100) % 100)
DayEntryColumn(e) == Num(e.date.n % 100)
FlagEntryColumn(e) == IF IsTransaction(e) THEN e.flag ELSE None
PayeeEntryColumn(e) == IF IsTransaction(e) THEN Or(e.payee, Str("")) ELSE None
NarrationEntryColumn(e) ==
    IF IsTransaction(e) THEN Or(e.narration, Str("")) ELSE None
TagsEntryColumn(e) == IF IsTransaction(e) THEN Or(e.tags, EMPTY_SET) ELSE EMPTY_SET
LinksEntryColumn(e) == IF IsTransaction(e) THEN Or(e.links, EMPTY_SET) ELSE EMPTY_SET

\* FilterEntriesEnvironment.columns
EntryColumnNames ==
    {"id", "type", "filename", "lineno", "date", "year", "month", "day",
     "flag", "payee", "narration", "tags", "links"}

EntryColumn(name, e) ==
    CASE name = "id" -> IdEntryColumn(e)
      [] name = "type" -> TypeEntryColumn(e)
      [] name = "filename" -> FilenameEntryColumn(e)
      [] name = "lineno" -> LineNoEntryColumn(e)
      [] name = "date" -> DateEntryColumn(e)
      [] name = "year" -> YearEntryColumn(e)
      [] name = "month" -> MonthEntryColumn(e)
      [] name = "day" -> DayEntryColumn(e)
      [] name = "flag" -> FlagEntryColumn(e)
      [] name = "payee" -> PayeeEntryColumn(e)
      [] name = "narration" -> NarrationEntryColumn(e)
      [] name = "tags" -> TagsEntryColumn(e)
      [] name = "links" -> LinksEntryColumn(e)

\* Column accessors for postings, those of the parent transaction's fields.
IdColumn(p) == hash_entry(p.entry)
TypeColumn(p) == Str(Lower(p.entry.type))
FilenameColumn(p) == Str(p.entry.source.filename)
LineNoColumn(p) == Num(p.entry.source.lineno)
DateColumn(p) == p.entry.date
YearColumn(p) == Num(p.entry.date.n \div 10000)
MonthColumn(p) == Num((p.entry.date.n \div 100) % 100)
DayColumn(p) == Num(p.entry.date.n % 100)
FlagColumn(p) == p.entry.flag
PayeeColumn(p) == Or(p.entry.payee, Str(""))
NarrationColumn(p) == p.entry.narration
TagsColumn(p) == Or(p.entry.tags, EMPTY_SET)
LinksColumn(p) == Or(p.entry.links, EMPTY_SET)

\* The columns of FilterPostingsEnvironment.columns that read the parent.
ParentColumnNames == EntryColumnNames

PostingColumn(name, p) ==
    CASE name = "id" -> IdColumn(p)
      [] name = "type" -> TypeColumn(p)
      [] name = "filename" -> FilenameColumn(p)
      [] name = "lineno" -> LineNoColumn(p)
      [] name = "date" -> DateColumn(p)
      [] name = "year" -> YearColumn(p)
      [] name = "month" -> MonthColumn(p)
      [] name = "day" -> DayColumn(p)
      [] name = "flag" -> FlagColumn(p)
      [] name = "payee" -> PayeeColumn(p)
      [] name = "narration" -> NarrationColumn(p)
      [] name = "tags" -> TagsColumn(p)
      [] name = "links" -> LinksColumn(p)

\* The directives of the ledger: transactions whose payee, narration, tags
\* and links are each absent, empty or set, and a directive of another type.
OptStr == {None, Str(""), Str("a")}
OptSet == {None, SetVal({}), SetVal({"t1"})}
LineNos == {3, 7}

Transactions ==
    [type : {"Transaction"},
     source : [filename : {"ledger.beancount"}, lineno : LineNos],
     date : {Date(20140315)},
     flag : {Str("*")},
     payee : OptStr, narration : OptStr, tags : OptSet, links : OptSet]

OtherDirectives ==
    [type : {"Open"},
     source : [filename : {"ledger.beancount"}, lineno : LineNos],
     date : {Date(20140315)},
     flag : {None}, payee : {None}, narration : {None}, tags : {None},
     links : {None}]

Entries == Transactions \cup OtherDirectives

\* A posting carries a back-reference to its parent transaction.
Accounts == {"Assets:Cash", "Expenses:Food"}
PostingsOf(e) == [entry : {e}, account : Accounts]

ColInit ==
    /\ AggIdle
    /\ ResIdle
    /\ ExtIdle
    /\ entry \in Entries
    /\ ecol = ""
    /\ evalue = None
    /\ pcol = ""
    /\ pvalue = None

EvalEntryColumn(name) ==
    /\ ecol = ""
    /\ ecol' = name
    /\ evalue' = EntryColumn(name, entry)
    /\ UNCHANGED <<entry, pcol, pvalue, aggvars, resvars, extvars>>

\* Posting rows are the postings of transactions only.
EvalPostingColumn(name, p) ==
    /\ IsTransaction(entry)
    /\ pcol = ""
    /\ pcol' = name
    /\ pvalue' = PostingColumn(name, p)
    /\ UNCHANGED <<entry, ecol, evalue, aggvars, resvars, extvars>>

ColNext ==
    \/ \E name \in EntryColumnNames : EvalEntryColumn(name)
    \/ \E name \in ParentColumnNames : \E p \in PostingsOf(entry) :
          EvalPostingColumn(name, p)

ColSpec == ColInit /\ [][ColNext]_vars

\* ================================================================== claims
\* ---- helpers of the statements
RECURSIVE SumSeq(_)
SumSeq(seq) == IF seq = <<>> THEN 0 ELSE seq[1].n + SumSeq(Tail(seq))

\* The first value of seq that is not absent, absent when there is none.
RECURSIVE FirstPresent(_)
FirstPresent(seq) ==
    IF seq = <<>> THEN None
    ELSE IF seq[1] # None THEN seq[1] ELSE FirstPresent(Tail(seq))

Leq(a, b) == a = b \/ Less(a, b)
IsLeast(x, S) == x \in S /\ \A y \in S : Leq(x, y)
IsGreatest(x, S) == x \in S /\ \A y \in S : Leq(y, x)
IsMinimal(x, S) == x \in S /\ \A y \in S : ~Less(y, x)
IsMaximal(x, S) == x \in S /\ \A y \in S : ~Less(x, y)
RowSet == {rows[i] : i \in 1 .. Len(rows)}

Perms(n) == {f \in [1 .. n -> 1 .. n] : \A i, j \in 1 .. n : f[i] = f[j] => i = j}
Permuted(seq, f) == [i \in 1 .. Len(seq) |-> seq[f[i]]]

\* The state after update on each value of seq, in order.
RECURSIVE Fold(_, _, _, _)
Fold(k, m, h, seq) ==
    IF seq = <<>> THEN m ELSE Fold(k, update(k, m, h, seq[1]), h, Tail(seq))

\* The value a returned slot content stands for: an Inventory object's
\* contents for a reference, the value itself otherwise.
Deref(m, v) == IF v.t = "ref" THEN Inventory(m.heap[v.n]) ELSE v

FreshMachine ==
    [store |-> [h \in Handles |-> None], heap |-> <<>>, raised |-> FALSE]

\* ---- C1
\* C1: Count driven as initialize, update once per row, finalize returns the
\* number of rows of the group, whatever the operand values (absent included).
C1_CountReturnsRowCount ==
    (kind = "Count" /\ pc = "finalized") => ret = Num(Len(rows))

C1_Witness ==
    /\ kind = "Count"
    /\ pc = "finalized"
    /\ Len(rows) = 3
    /\ rows[2] = None
    /\ ret = Num(3)

\* ---- C2
\* C2 as stated: after updates on v1..vn (n >= 1) First returns v1 and Last
\* returns vn.
C2_FirstReturnsV1 ==
    (pc = "finalized" /\ Len(rows) >= 1) =>
        /\ kind = "First" => ret = rows[1]
        /\ kind = "Last" => ret = rows[Len(rows)]

\* C2 amended: First returns the first of v1..vn that is not the absent
\* value (absent when all are), and Last returns vn.
C2_FirstReturnsFirstPresent ==
    (pc = "finalized" /\ Len(rows) >= 1) =>
        /\ kind = "First" => ret = FirstPresent(rows)
        /\ kind = "Last" => ret = rows[Len(rows)]

C2_Witness ==
    /\ kind = "First"
    /\ pc = "finalized"
    /\ Len(rows) = 3
    /\ rows[1] = None
    /\ rows[2] # None
    /\ rows[3] # rows[2]
    /\ ret = rows[2]

C4_SumOrderIndependent ==
    (pc = "finalized" /\ kind \in {"Sum"} \cup SumBaseKinds) =>
        /\ kind = "Sum" => ret = Num(SumSeq(rows))
        /\ \A f \in Perms(Len(rows)) :
              LET m0 == initialize(kind, FreshMachine, handle, dtype)
                  m1 == Fold(kind, m0, handle, Permuted(rows, f))
              IN  /\ ~m1.raised
                  /\ Deref(m1, AggFinalize(m1, handle).ret) = Deref(Machine, ret)

C4_Witness ==
    /\ kind = "Sum"
    /\ pc = "finalized"
    /\ rows = <<Num(10), Num(20), Num(5)>>
    /\ ret = Num(35)

C6_FinalizeReadsOnly ==
    [][Finalize =>
          /\ ret' = store[handle]
          /\ store' = store
          /\ heap' = heap
          /\ handle' = handle
          /\ (pc = "finalized" => ret' = ret)]_vars

C6_Witness ==
    /\ pc = "finalized"
    /\ nfinal = 2
    /\ Len(rows) = 2
    /\ ret = store[handle]

\* ---- C7
\* C7: resolution by (name, type of first operand), then by bare name: the
\* registered pairs give the specialized constructor, sum over another type
\* gives the generic Sum, units and cost over a type other than Position
\* fail, and a name the table holds in neither form fails.
C7_Resolution ==
    rresult # "" =>
        /\ (renv = "targets" /\ rname = "sum") =>
              rresult = CASE rtype = "amount" -> "SumAmount"
                          [] rtype = "position" -> "SumPosition"
                          [] rtype = "inventory" -> "SumInventory"
                          [] OTHER -> "Sum"
        /\ (rname = "units" /\ rtype = "position") => rresult = "UnitsPosition"
        /\ (rname = "cost" /\ rtype = "position") => rresult = "CostPosition"
        /\ (rname \in {"units", "cost"} /\ rtype # "position") =>
              rresult = "CompilationError"
        /\ (\A e \in Functions(renv) : e[1] # rname) => rresult = "CompilationError"
        /\ (renv # "targets" /\ rname = "sum") => rresult = "CompilationError"

C7_Witness ==
    /\ renv = "targets"
    /\ rname = "sum"
    /\ rtype = "position"
    /\ rresult = "SumPosition"

\* ---- C8
\* C8: on every posting of a transaction, each posting-scoped accessor of a
\* parent-entry field returns what the entry-scoped accessor of the same name
\* returns on the parent.
C8_PostingEqualsEntry ==
    (IsTransaction(entry) /\ ecol # "" /\ pcol = ecol) => pvalue = evalue

\* ---- C9
\* C9: in both column tables the payee, narration, tags and links accessors
\* never return the absent marker.
C9_NeverAbsent ==
    /\ ecol \in {"payee", "narration", "tags", "links"} => evalue # None
    /\ pcol \in {"payee", "narration", "tags", "links"} => pvalue # None

\* ---- C10
\* C10: for an aggregator whose operand type its intypes accept, initialize,
\* update and finalize never raise.
C10_NeverRaises == ~raised

\* ============================================ a plan of several aggregators
PlanRows == 2         \* rows each aggregator of the plan consumes
PlanAggs == {1, 2}

\* One operand type per aggregator class, and a few values of each type.
PlanDType(k) ==
    CASE k = "Sum" -> "num"
      [] k = "SumAmount" -> "amount"
      [] k = "SumPosition" -> "position"
      [] k = "SumInventory" -> "inventory"
      [] k = "Count" -> "amount"
      [] k = "First" -> "amount"
      [] k = "Last" -> "num"
      [] k = "Min" -> "num"
      [] k = "Max" -> "set"

SmallValues(dt) ==
    CASE dt = "num" -> {Num(-5), Num(5)}
      [] dt = "set" -> {SetVal({"t1"}), SetVal({"t2"})}
      [] dt = "amount" -> {None, Amount(5, "USD"), Amount(-5, "CAD")}
      [] dt = "position" -> {Position(5, "USD"), Position(-5, "HOOL {500 USD}")}
      [] dt = "inventory" ->
            {Inventory([ZeroInv EXCEPT !["USD"] = 5]),
             Inventory([ZeroInv EXCEPT !["CAD"] = 5])}

\* allocator.allocate(): the next handle, never handed out before.
AllocatorAllocate(next) == [handle |-> next, next |-> next + 1]

PlanInit ==
    /\ ResIdle
    /\ ColIdle
    /\ PostIdle
    /\ GroupIdle
    /\ LoadIdle
    /\ kind = ""
    /\ dtype = ""
    /\ handle = -1
    /\ allocator \in 0 .. NumHandles - Cardinality(PlanAggs)
    /\ store = [h \in Handles |-> None]
    /\ heap = <<>>
    /\ raised = FALSE
    /\ rows = <<>>
    /\ ret = None
    /\ nfinal = 0
    /\ pc = ""
    /\ plan \in [PlanAggs ->
                  {[kind |-> k, dtype |-> PlanDType(k), handle |-> -1,
                    pc |-> "constructed", n |-> 0] : k \in Kinds}]

PlanFrame ==
    UNCHANGED <<kind, dtype, handle, rows, nfinal, pc, resvars, colvars,
                posting, amount_bool, group, returned, dicts, bind, lpc>>

PlanAllocate(a) ==
    /\ plan[a].pc = "constructed"
    /\ LET r == AllocatorAllocate(allocator) IN
         /\ plan' = [plan EXCEPT ![a].handle = r.handle, ![a].pc = "allocated"]
         /\ allocator' = r.next
    /\ UNCHANGED <<store, heap, raised, ret>>
    /\ PlanFrame

PlanInitialize(a) ==
    /\ ~raised
    /\ plan[a].pc = "allocated"
    /\ LET m == initialize(plan[a].kind, Machine, plan[a].handle, plan[a].dtype) IN
         /\ store' = m.store
         /\ heap' = m.heap
         /\ raised' = m.raised
         /\ plan' = [plan EXCEPT ![a].pc = IF m.raised THEN "raised" ELSE "initialized"]
    /\ UNCHANGED <<allocator, ret>>
    /\ PlanFrame

PlanUpdate(a, value) ==
    /\ ~raised
    /\ plan[a].pc = "initialized"
    /\ plan[a].n < PlanRows
    /\ LET m == update(plan[a].kind, Machine, plan[a].handle, value) IN
         /\ store' = m.store
         /\ heap' = m.heap
         /\ raised' = m.raised
         /\ plan' = [plan EXCEPT ![a].n = @ + 1,
                                 ![a].pc = IF m.raised THEN "raised" ELSE "initialized"]
    /\ UNCHANGED <<allocator, ret>>
    /\ PlanFrame

PlanFinalize(a) ==
    /\ ~raised
    /\ plan[a].pc = "initialized"
    /\ LET r == AggFinalize(Machine, plan[a].handle) IN
         /\ ret' = r.ret
         /\ store' = r.m.store
         /\ heap' = r.m.heap
         /\ raised' = r.m.raised
    /\ plan' = [plan EXCEPT ![a].pc = "finalized"]
    /\ UNCHANGED allocator
    /\ PlanFrame

PlanNext ==
    \/ \E a \in PlanAggs : PlanAllocate(a)
    \/ \E a \in PlanAggs : PlanInitialize(a)
    \/ \E a \in PlanAggs : \E value \in SmallValues(plan[a].dtype) :
          PlanUpdate(a, value)
    \/ \E a \in PlanAggs : PlanFinalize(a)

PlanSpec == PlanInit /\ [][PlanNext]_vars

\* ---- C11
\* The contents of slot h: the value it holds and, when that is an
\* Inventory object, the object's contents.
SlotContents(m, h) == <<m.store[h], Deref(m, m.store[h])>>

\* C11: after each aggregator of a plan took its handle from the allocator,
\* two distinct aggregators hold distinct handles, and every initialize,
\* update or finalize of one aggregator leaves every slot but its own
\* unchanged, under every interleaving of the calls.
C11_OwnSlotOnly ==
    [][/\ \A a, b \in PlanAggs :
            (a # b /\ plan'[a].handle # -1 /\ plan'[b].handle # -1) =>
                plan'[a].handle # plan'[b].handle
       /\ \A a \in PlanAggs :
            (\/ PlanInitialize(a)
             \/ \E value \in SmallValues(plan[a].dtype) : PlanUpdate(a, value)
             \/ PlanFinalize(a)) =>
                \A h \in Handles \ {plan[a].handle} :
                    SlotContents([store |-> store', heap |-> heap',
                                  raised |-> raised'], h)
                        = SlotContents(Machine, h)]_vars

C11_Witness ==
    /\ plan # <<>>
    /\ plan[1].kind = "SumPosition"
    /\ plan[2].kind = "SumAmount"
    /\ plan[1].pc = "finalized"
    /\ plan[2].pc = "finalized"
    /\ plan[1].n = 2
    /\ plan[2].n = 1
    /\ plan[1].handle = 1
    /\ plan[2].handle = 0

\* ======================================= one aggregator, consecutive groups
MaxGroups == 2        \* groups one aggregator is driven over
GroupRows == 2        \* rows of each group

GroupInit ==
    /\ ResIdle
    /\ ColIdle
    /\ PostIdle
    /\ PlanIdle
    /\ LoadIdle
    /\ kind \in Kinds
    /\ dtype = PlanDType(kind)
    /\ handle = -1
    /\ allocator \in Handles
    /\ store = [h \in Handles |-> None]
    /\ heap = <<>>
    /\ raised = FALSE
    /\ rows = <<>>
    /\ ret = None
    /\ nfinal = 0
    /\ pc = "constructed"
    /\ group = 0
    /\ returned = <<>>

GroupFrame ==
    UNCHANGED <<kind, dtype, handle, allocator, nfinal, resvars, colvars,
                posting, amount_bool, plan, dicts, bind, lpc>>

\* The executor calls initialize at the start of every group.
GroupInitialize ==
    /\ pc \in {"allocated", "finalized"}
    /\ group < MaxGroups
    /\ LET m == initialize(kind, Machine, handle, dtype) IN
         /\ store' = m.store
         /\ heap' = m.heap
         /\ raised' = m.raised
         /\ pc' = IF m.raised THEN "raised" ELSE "initialized"
    /\ rows' = <<>>
    /\ group' = group + 1
    /\ UNCHANGED <<ret, returned>>
    /\ GroupFrame

GroupUpdate(value) ==
    /\ pc = "initialized"
    /\ group >= 1
    /\ Len(rows) < GroupRows
    /\ LET m == update(kind, Machine, handle, value) IN
         /\ store' = m.store
         /\ heap' = m.heap
         /\ raised' = m.raised
         /\ pc' = IF m.raised THEN "raised" ELSE "initialized"
    /\ rows' = Append(rows, value)
    /\ UNCHANGED <<ret, group, returned>>
    /\ GroupFrame

\* finalize once per group; the executor keeps the value in the result row.
GroupFinalize ==
    /\ pc = "initialized"
    /\ group >= 1
    /\ LET r == AggFinalize(Machine, handle) IN
         /\ ret' = r.ret
         /\ store' = r.m.store
         /\ heap' = r.m.heap
         /\ raised' = r.m.raised
         /\ returned' = Append(returned,
                               [ret |-> r.ret, val |-> Deref(r.m, r.ret)])
    /\ pc' = "finalized"
    /\ UNCHANGED <<rows, group>>
    /\ GroupFrame

GroupNext ==
    \/ Allocate
    \/ GroupInitialize
    \/ \E value \in SmallValues(dtype) : GroupUpdate(value)
    \/ GroupFinalize

GroupSpec == GroupInit /\ [][GroupNext]_vars

\* ---- C15
\* C15: over consecutive groups the value finalize returns for a group is
\* the one a new aggregator returns for that group's rows alone, and a value
\* returned for an earlier group, an Inventory object's contents included,
\* is not changed by the calls of a later group.
C15_GroupsIndependent ==
    /\ (pc = "finalized" /\ group >= 1) =>
          LET m0 == initialize(kind, FreshMachine, handle, dtype)
              m1 == Fold(kind, m0, handle, rows)
          IN  Deref(Machine, ret) = Deref(m1, AggFinalize(m1, handle).ret)
    /\ \A i \in 1 .. Len(returned) :
          Deref(Machine, returned[i].ret) = returned[i].val

C15_Witness ==
    /\ kind = "SumPosition"
    /\ group = 2
    /\ pc = "finalized"
    /\ Len(returned) = 2
    /\ Len(rows) = 2
    /\ returned[1].val # Inventory(ZeroInv)
    /\ returned[2].val # returned[1].val
    /\ returned[2].val # Inventory(ZeroInv)

\* ================================== module load, and environment lookups
\* The statements of the module body that build the function tables.  A
\* literal creates a dict object, copy.copy creates another one with the
\* same items, and update changes its target object in place.
ModuleBody ==
    << [op |-> "literal", target |-> "SIMPLE_FUNCTIONS", source |-> ""],
       [op |-> "literal", target |-> "AGGREGATOR_FUNCTIONS", source |-> ""],
       [op |-> "literal", target |-> "ENTRY_FUNCTIONS", source |-> ""],
       [op |-> "copy", target |-> "FilterEntriesEnvironment.functions",
        source |-> "SIMPLE_FUNCTIONS"],
       [op |-> "update", target |-> "FilterEntriesEnvironment.functions",
        source |-> "ENTRY_FUNCTIONS"],
       [op |-> "copy", target |-> "FilterPostingsEnvironment.functions",
        source |-> "SIMPLE_FUNCTIONS"],
       [op |-> "copy", target |-> "TargetsEnvironment.functions",
        source |-> "FilterPostingsEnvironment.functions"],
       [op |-> "update", target |-> "TargetsEnvironment.functions",
        source |-> "AGGREGATOR_FUNCTIONS"] >>

Loaded == Len(ModuleBody) + 1

LiteralOf(name) ==
    CASE name = "SIMPLE_FUNCTIONS" -> SIMPLE_FUNCTIONS
      [] name = "AGGREGATOR_FUNCTIONS" -> AGGREGATOR_FUNCTIONS
      [] name = "ENTRY_FUNCTIONS" -> ENTRY_FUNCTIONS

\* Each statement maps w = [dicts, bind] to the objects and bindings after it.
dict_literal(w, target) ==
    [dicts |-> Append(w.dicts, LiteralOf(target)),
     bind |-> [w.bind EXCEPT ![target] = Len(w.dicts) + 1]]

copy_alias(w, target, source) ==
    [dicts |-> w.dicts, bind |-> [w.bind EXCEPT ![target] = w.bind[source]]]
copy_copy(w, target, source) ==
    [dicts |-> Append(w.dicts, w.dicts[w.bind[source]]),
     bind |-> [w.bind EXCEPT ![target] = Len(w.dicts) + 1]]

dict_update(w, target, source) ==
    [dicts |-> [w.dicts EXCEPT ![w.bind[target]] =
                    DictUpdate(@, w.dicts[w.bind[source]])],
     bind |-> w.bind]

Execute(w, stmt) ==
    CASE stmt.op = "literal" -> dict_literal(w, stmt.target)
      [] stmt.op = "copy" -> copy_copy(w, stmt.target, stmt.source)
      [] stmt.op = "update" -> dict_update(w, stmt.target, stmt.source)

EnvTable(env) ==
    CASE env = "entries" -> "FilterEntriesEnvironment.functions"
      [] env = "postings" -> "FilterPostingsEnvironment.functions"
      [] env = "targets" -> "TargetsEnvironment.functions"

\* The function table of an environment, once the module is loaded.
LoadedFunctions(env) == dicts[bind[EnvTable(env)]]

\* Lookup by (name, type of the first operand), then by the bare name.
get_function_in(table, name, type) ==
    IF HasKey(table, name, type)
    THEN Lookup(table, name, type)
    ELSE IF HasKey(table, name, "")
         THEN Lookup(table, name, "")
         ELSE "CompilationError"

\* The column tables, sets of <<name, constructor>>.
FilterEntriesColumns ==
    { <<"id", "IdEntryColumn">>,
      <<"type", "TypeEntryColumn">>,
      <<"filename", "FilenameEntryColumn">>,
      <<"lineno", "LineNoEntryColumn">>,
      <<"date", "DateEntryColumn">>,
      <<"year", "YearEntryColumn">>,
      <<"month", "MonthEntryColumn">>,
      <<"day", "DayEntryColumn">>,
      <<"flag", "FlagEntryColumn">>,
      <<"payee", "PayeeEntryColumn">>,
      <<"narration", "NarrationEntryColumn">>,
      <<"tags", "TagsEntryColumn">>,
      <<"links", "LinksEntryColumn">> }

ParentColumns ==
    { <<"id", "IdColumn">>,
      <<"type", "TypeColumn">>,
      <<"filename", "FilenameColumn">>,
      <<"lineno", "LineNoColumn">>,
      <<"date", "DateColumn">>,
      <<"year", "YearColumn">>,
      <<"month", "MonthColumn">>,
      <<"day", "DayColumn">>,
      <<"flag", "FlagColumn">>,
      <<"payee", "PayeeColumn">>,
      <<"narration", "NarrationColumn">>,
      <<"tags", "TagsColumn">> }

PostingOwnColumns ==
    { <<"posting_flag", "PostingFlagColumn">>,
      <<"account", "AccountColumn">>,
      <<"number", "NumberColumn">>,
      <<"currency", "CurrencyColumn">>,
      <<"cost_number", "CostNumberColumn">>,
      <<"cost_currency", "CostCurrencyColumn">>,
      <<"change", "ChangeColumn">>,
      <<"price", "PriceColumn">>,
      <<"weight", "WeightColumn">> }

FilterPostingsColumnsNoLinks == ParentColumns \cup PostingOwnColumns
FilterPostingsColumns ==
    ParentColumns \cup {<<"links", "LinksColumn">>} \cup PostingOwnColumns

\* TargetsEnvironment inherits the class attribute of FilterPostingsEnvironment.
TargetsColumns == FilterPostingsColumns

Columns(env) ==
    CASE env = "entries" -> FilterEntriesColumns
      [] env = "postings" -> FilterPostingsColumns
      [] env = "targets" -> TargetsColumns

\* Lookup of a column name in the environment's column table.
get_column(env, name) ==
    IF \E e \in Columns(env) : e[1] = name
    THEN (CHOOSE e \in Columns(env) : e[1] = name)[2]
    ELSE "CompilationError"

ColumnNames ==
    {e[1] : e \in FilterEntriesColumns \cup FilterPostingsColumns} \cup {"balance"}

EnvInit ==
    /\ AggIdle
    /\ ResIdle
    /\ ColIdle
    /\ PostIdle
    /\ PlanIdle
    /\ GroupIdle
    /\ dicts = <<>>
    /\ bind = [n \in TableNames |-> 0]
    /\ lpc = 1

EnvFrame ==
    UNCHANGED <<aggvars, colvars, posting, amount_bool, plan, group, returned>>

LoadStatement ==
    /\ lpc \in 1 .. Len(ModuleBody)
    /\ LET w == Execute([dicts |-> dicts, bind |-> bind], ModuleBody[lpc]) IN
         /\ dicts' = w.dicts
         /\ bind' = w.bind
    /\ lpc' = lpc + 1
    /\ UNCHANGED resvars
    /\ EnvFrame

EnvGetFunction(env, name, type) ==
    /\ lpc = Loaded
    /\ rresult = ""
    /\ renv' = env
    /\ rname' = name
    /\ rtype' = type
    /\ rresult' = get_function_in(LoadedFunctions(env), name, type)
    /\ UNCHANGED <<dicts, bind, lpc>>
    /\ EnvFrame

\* A column lookup takes no operand type: rtype stays "".
EnvGetColumn(env, name) ==
    /\ lpc = Loaded
    /\ rresult = ""
    /\ renv' = env
    /\ rname' = name
    /\ rtype' = ""
    /\ rresult' = get_column(env, name)
    /\ UNCHANGED <<dicts, bind, lpc>>
    /\ EnvFrame

EnvNext ==
    \/ LoadStatement
    \/ \E env \in Environments : \E name \in FunctionNames : \E type \in DTypes :
          EnvGetFunction(env, name, type)
    \/ \E env \in Environments : \E name \in ColumnNames :
          EnvGetColumn(env, name)

EnvSpec == EnvInit /\ [][EnvNext]_vars

\* ---- C12
AggregateNames == {"sum", "count", "first", "last", "min", "max"}
Keys(table) == {<<e[1], e[2]>> : e \in table}

\* C12: once the module is loaded the targets function table holds exactly
\* the keys of the postings table and of the aggregate library, each bound
\* to the same constructor; the postings and entries tables hold no
\* aggregate name, and has_account is in the entries table only.
C12_TargetsIsUnion ==
    lpc = Loaded =>
        LET T == LoadedFunctions("targets")
            P == LoadedFunctions("postings")
            E == LoadedFunctions("entries")
        IN  /\ T = P \cup AGGREGATOR_FUNCTIONS
            /\ Cardinality(Keys(T)) = Cardinality(T)
            /\ \A e \in P \cup E : e[1] \notin AggregateNames
            /\ \E e \in E : e[1] = "has_account"
            /\ \A e \in P \cup T : e[1] # "has_account"
            /\ dicts[bind["SIMPLE_FUNCTIONS"]] = SIMPLE_FUNCTIONS

C12_Witness ==
    /\ lpc = Loaded
    /\ Cardinality(LoadedFunctions("targets")) = 18
    /\ Cardinality(LoadedFunctions("postings")) = 9
    /\ Cardinality(LoadedFunctions("entries")) = 10
    /\ renv = "postings"
    /\ rname = "sum"
    /\ rtype = "position"
    /\ rresult = "CompilationError"

\* ---- C13
PostingOnlyNames ==
    {"posting_flag", "account", "number", "currency", "cost_number",
     "cost_currency", "change", "price", "weight"}

\* C13: a posting-only column name does not resolve in the entries
\* environment, and every column name of the entries environment resolves
\* in the postings and in the targets environment.
C13_ColumnScopes ==
    (lpc = Loaded /\ rresult # "" /\ rtype = "") =>
        /\ (renv = "entries" /\ rname \in PostingOnlyNames) =>
              rresult = "CompilationError"
        /\ (renv \in {"postings", "targets"}
               /\ \E e \in Columns("entries") : e[1] = rname) =>
              rresult # "CompilationError"
        /\ (renv \in {"postings", "targets"} /\ rname \in PostingOnlyNames) =>
              rresult # "CompilationError"

C13_Witness ==
    /\ lpc = Loaded
    /\ renv = "entries"
    /\ rname = "cost_number"
    /\ rtype = ""
    /\ rresult = "CompilationError"

\* ================================================== posting-only columns
ZERO == Num(0)

\* bool(x) of an Amount.  The class is defined outside this module: either
\* it keeps object's truth value (always true) or it defines its truth
\* value by its number (true when the number is not zero).
AmountBoolKinds == {"object", "number"}
AmountBool(a) == IF amount_bool = "number" THEN a.n # 0 ELSE TRUE

\* The truth value Python gives the expression tested by `x if cost else y`.
CostTruthy(cost) == cost # None /\ AmountBool(cost)

PostingFlagColumn(p) == p.flag
AccountColumn(p) == Str(p.account)
NumberColumn(p) == Num(p.position.number)
CurrencyColumn(p) == Str(p.position.lot.currency)

CostNumberColumn(p) ==
    IF CostTruthy(p.position.lot.cost)
    THEN Num(p.position.lot.cost.n)
    ELSE ZERO

CostCurrencyColumn(p) ==
    IF CostTruthy(p.position.lot.cost)
    THEN Str(p.position.lot.cost.c)
    ELSE Str("")

ChangeColumn(p) == p.position
PriceColumn(p) == p.price

PostingOwnNames ==
    {"posting_flag", "account", "number", "currency", "cost_number",
     "cost_currency", "change", "price"}

PostingOwnColumn(name, p) ==
    CASE name = "posting_flag" -> PostingFlagColumn(p)
      [] name = "account" -> AccountColumn(p)
      [] name = "number" -> NumberColumn(p)
      [] name = "currency" -> CurrencyColumn(p)
      [] name = "cost_number" -> CostNumberColumn(p)
      [] name = "cost_currency" -> CostCurrencyColumn(p)
      [] name = "change" -> ChangeColumn(p)
      [] name = "price" -> PriceColumn(p)

\* The postings: a position of some units, held at a cost or not; a cost
\* may have the number zero.
Costs == {None, Amount(0, "USD"), Amount(5, "USD"), Amount(20, "CAD")}
PostingEntry == CHOOSE e \in Transactions : e.payee = Str("a") /\ e.narration = Str("a")
Postings ==
    [entry : {PostingEntry},
     account : Accounts,
     flag : {None, Str("a")},
     position : [number : UnitVals,
                 lot : [currency : Currencies, cost : Costs]],
     price : {None, Amount(5, "CAD")}]

PostInit ==
    /\ AggIdle
    /\ ResIdle
    /\ PlanIdle
    /\ GroupIdle
    /\ LoadIdle
    /\ entry = PostingEntry
    /\ ecol = ""
    /\ evalue = None
    /\ pcol = ""
    /\ pvalue = None
    /\ posting \in Postings
    /\ amount_bool \in AmountBoolKinds

EvalPostingOwnColumn(name) ==
    /\ pcol = ""
    /\ pcol' = name
    /\ pvalue' = PostingOwnColumn(name, posting)
    /\ UNCHANGED <<entry, ecol, evalue, aggvars, resvars, extvars>>

PostNext == \E name \in PostingOwnNames : EvalPostingOwnColumn(name)

PostSpec == PostInit /\ [][PostNext]_vars

\* ---- C14
\* C14: on a posting whose position carries no cost, cost_number returns
\* zero and cost_currency the empty string; when a cost is present they
\* return that cost's number and currency.
C14_CostOrZero ==
    LET cost == posting.position.lot.cost IN
    /\ pcol = "cost_number" =>
          pvalue = IF cost = None THEN ZERO ELSE Num(cost.n)
    /\ pcol = "cost_currency" =>
          pvalue = IF cost = None THEN Str("") ELSE Str(cost.c)

====
